---- MODULE Spec2Model ----
(***************************************************************************)
(* GenAlgSolver (src/build/lib/simpleGA/genetic_algorithm_base.py): the    *)
(* generational loop of solve, parent selection, mutation targets, ranking *)
(* and the run state kept on the solver object between solve calls.        *)
(*                                                                         *)
(* numpy arrays are functions over 0 .. n-1, so that every index is the    *)
(* index of the source.  Probabilities and rates are exact fractions       *)
(* <<numerator, denominator>>, the temperature too.  An attribute that may *)
(* be None is                                                              *)
(* [none |-> TRUE] or [none |-> FALSE, val |-> v].                         *)
(***************************************************************************)
EXTENDS Integers, Sequences, FiniteSets, TLC

\* ------------------------------------------------------------------ bounds
\* Largest niter a caller passes to solve.
MaxNiter == 3
\* solve is called while generations_ plus the call's budget stays within this.
MaxGenerations == 3
\* Uniform draws of np.random.rand are k / DrawGrid, k in 0 .. DrawGrid-1.
DrawGrid == 4

\* ------------------------------------------------------- arrays and values
None == [none |-> TRUE]
Some(v) == [none |-> FALSE, val |-> v]

Len0(a) == Cardinality(DOMAIN a)
Empty0 == [i \in {} |-> 0]
Append0(a, x) == [i \in 0 .. Len0(a) |-> IF i < Len0(a) THEN a[i] ELSE x]
Concat0(a, b) ==
    [i \in 0 .. (Len0(a) + Len0(b) - 1) |-> IF i < Len0(a) THEN a[i] ELSE b[i - Len0(a)]]
\* a[1:]
Tail0(a) == [i \in 0 .. (Len0(a) - 2) |-> a[i + 1]]
\* a[0:n]
Take0(a, n) == [i \in 0 .. ((IF n < Len0(a) THEN n ELSE Len0(a)) - 1) |-> a[i]]
\* numpy's a[i] for an index that may be negative
At(a, i) == IF i < 0 THEN a[Len0(a) + i] ELSE a[i]
\* numpy's a[i] = x for an index that may be negative
Put(a, i, x) == [a EXCEPT ![IF i < 0 THEN Len0(a) + i ELSE i] = x]

RECURSIVE SumTo(_, _)
SumTo(a, n) == IF n = 0 THEN 0 ELSE a[n - 1] + SumTo(a, n - 1)
Sum0(a) == SumTo(a, Len0(a))

Abs(x) == IF x < 0 THEN -x ELSE x
Min2(a, b) == IF a < b THEN a ELSE b
Max2(a, b) == IF a < b THEN b ELSE a
\* floor and ceil of the fraction n / d, d > 0, n >= 0
Floor(n, d) == n \div d
Ceil(n, d) == (n + d - 1) \div d
\* p > q for fractions with positive denominators
FracGt(p, q) == p[1] * q[2] > q[1] * p[2]

GeneValues == {0, 1}

\* ------------------------------------------------------------ configuration
\* allowed_mutation_genes after check_input_base: arange(n_genes) without the
\* excluded genes, in ascending order.
RECURSIVE FilterAllowed(_, _, _)
FilterAllowed(n_genes, excluded_genes, g) ==
    IF g = n_genes THEN Empty0
    ELSE LET rest == FilterAllowed(n_genes, excluded_genes, g + 1)
         IN  IF g \notin excluded_genes
             THEN Concat0([i \in {0} |-> g], rest)
             ELSE rest
allowed_mutation_genes(c) == FilterAllowed(c.n_genes, c.excluded_genes, 0)

\* pop_keep = int(floor(selection_rate * pop_size)), at least 2
pop_keep(c) ==
    LET k == Floor(c.selection_rate[1] * c.pop_size, c.selection_rate[2])
    IN  IF k < 2 THEN 2 ELSE k

\* n_matings = int(floor((pop_size - pop_keep) / 2))
n_matings(c) == Floor(c.pop_size - pop_keep(c), 2)

\* int(ceil((pop_size - 1) * n_genes * mutation_rate))
get_number_mutations(c) ==
    Ceil((c.pop_size - 1) * c.n_genes * c.mutation_rate[1], c.mutation_rate[2])

\* get_selection_probabilities: the cumulative table of the static strategies,
\* pop_keep + 1 fractions; None for the other strategies.
RouletteCum(k, j) ==
    \* sum of the first j entries of [k, k-1, .., 1] over 1 + .. + k
    <<j * k - ((j * (j - 1)) \div 2), (k * (k + 1)) \div 2>>
get_selection_probabilities(c) ==
    IF c.selection_strategy = "roulette_wheel"
    THEN Some([j \in 0 .. pop_keep(c) |-> RouletteCum(pop_keep(c), j)])
    ELSE IF c.selection_strategy = "random"
    THEN Some([j \in 0 .. pop_keep(c) |-> <<j, pop_keep(c)>>])
    ELSE None

\* get_boltzmann_probabilities(fitness) for fitness values that take at most
\* two values among the pop_keep + 1 best.  The best values scale to 1 + 1e-6
\* and weigh exp(-1 / temperature) each; the least scale to 1e-6 and weigh
\* exp(-1e6 / temperature), which is 0.0 in floating point while the
\* temperature is below 1342; so each best value has probability 1 / (number
\* of best values) and the others 0.  When all values are equal the scaling
\* divides 0 by 0 and every probability is NaN.  The table is 0 followed by
\* the cumulative sums of the first pop_keep probabilities.
NaN == <<0, 0>>
get_boltzmann_probabilities(c, fitness) ==
    LET nfit == Take0(fitness, pop_keep(c) + 1)
        best == {k \in DOMAIN nfit : \A m \in DOMAIN nfit : nfit[m] <= nfit[k]}
        flat == \A k \in DOMAIN nfit : k \in best
    IN  [j \in 0 .. Min2(pop_keep(c), Len0(nfit)) |->
            IF j = 0 THEN <<0, 1>>
            ELSE IF flat THEN NaN
            ELSE <<Cardinality({k \in best : k < j}), Cardinality(best)>>]
\* self.temperature += 0.1 * self.temperature, the fraction kept reduced by 10
heated(temperature) ==
    IF (11 * temperature[1]) % 10 = 0
    THEN <<(11 * temperature[1]) \div 10, temperature[2]>>
    ELSE <<11 * temperature[1], 10 * temperature[2]>>

\* --------------------------------------------------------------- evaluation
\* The evaluator supplied by the caller, a pure function of the chromosome:
\* f(chromosome) = sum(chromosome).
fitness_function(chromosome) == Sum0(chromosome)

\* calculate_fitness without scalarizer: one evaluator call per row, squeezed;
\* pfitness is the same array.  np.squeeze of a single row is a 0-d array.
calculate_fitness(population) ==
    LET fitness == [i \in DOMAIN population |-> fitness_function(population[i])]
    IN  [fitness |-> fitness, pfitness |-> fitness,
         ndim |-> IF Len0(population) = 1 THEN 0 ELSE 1]

\* ------------------------------------------------------------------ ranking
\* np.argsort(fitness): an index array that sorts ascending.  The default
\* sort is not stable, so the order of equal values is any order: every
\* array that lists, step by step, an index of a least remaining value.
RECURSIVE ArgsortFrom(_, _)
ArgsortFrom(fitness, remaining) ==
    IF remaining = {} THEN {Empty0}
    ELSE UNION {
        {Concat0([z \in {0} |-> i], rest) : rest \in ArgsortFrom(fitness, remaining \ {i})}
        : i \in {k \in remaining : \A m \in remaining : fitness[k] <= fitness[m]} }
argsort(fitness) == ArgsortFrom(fitness, DOMAIN fitness)
Reverse0(a) == [i \in DOMAIN a |-> a[Len0(a) - 1 - i]]

\* (a ranking of the fitness array alone would leave the rows where they were)
sort_by_fitness_unpaired(fitness, population, printable_fitness, order) ==
    LET sorted_fitness == Reverse0(order)
    IN  [population |-> population,
         fitness |-> [i \in DOMAIN fitness |-> fitness[sorted_fitness[i]]],
         pfitness |-> printable_fitness]
\* sort_by_fitness, given the index array np.argsort returned
sort_by_fitness(fitness, population, printable_fitness, order) ==
    LET sorted_fitness == Reverse0(order)
    IN  [population |-> [i \in DOMAIN sorted_fitness |-> population[sorted_fitness[i]]],
         fitness |-> [i \in DOMAIN sorted_fitness |-> fitness[sorted_fitness[i]]],
         \* pfitness = np.empty_like(printable_fitness)
         \* for i in sorted_fitness: pfitness[i] = printable_fitness[i]
         pfitness |-> [i \in {sorted_fitness[k] : k \in DOMAIN sorted_fitness}
                           |-> printable_fitness[i]]]

\* ---------------------------------------------------------------- selection
\* np.random.rand: a value of [0, 1), 0 included
Draws == {<<k, DrawGrid>> : k \in 0 .. DrawGrid - 1}

\* np.argmin of a boolean array: the first False, or 0 when all are True
argmin(b) ==
    IF \E j \in DOMAIN b : ~b[j]
    THEN CHOOSE j \in DOMAIN b : ~b[j] /\ \A k \in DOMAIN b : k < j => b[k]
    ELSE 0
\* np.argmax: the first maximum
argmax(a) ==
    CHOOSE j \in DOMAIN a :
        /\ \A k \in DOMAIN a : a[k] <= a[j]
        /\ \A k \in DOMAIN a : k < j => a[k] < a[j]

\* np.argmin(value > self.prob_intervals) - 1
interval_selection(value, prob_intervals) ==
    argmin([j \in DOMAIN prob_intervals |-> FracGt(value, prob_intervals[j])]) - 1

\* selected_individuals[np.argmax(fitness[selected_individuals])]
tournament_selection_helper(selected_individuals, fitness) ==
    selected_individuals[
        argmax([k \in DOMAIN selected_individuals |-> fitness[selected_individuals[k]]])]

\* The random values one select_parents call consumes: n_matings uniform
\* values for the mothers and for the fathers (roulette_wheel, random), or
\* n_matings x 3 candidates below range_max (tournament); none for two_by_two.
SelectionDraws(c) ==
    LET nm == n_matings(c)
    IN  IF c.selection_strategy \in {"roulette_wheel", "random", "boltzmann"}
        THEN [ma : [0 .. nm - 1 -> Draws], pa : [0 .. nm - 1 -> Draws]]
        ELSE IF c.selection_strategy = "tournament"
        THEN [ma : [0 .. nm - 1 -> [0 .. 2 -> 0 .. 2 * nm - 1]],
              pa : [0 .. nm - 1 -> [0 .. 2 -> 0 .. 2 * nm - 1]]]
        ELSE {[ma |-> Empty0, pa |-> Empty0]}

\* np.apply_along_axis over np.random.rand(n_matings, 1) raises ValueError
\* when n_matings is 0: there is no row to apply interval_selection to
select_parents_raises(c) ==
    /\ c.selection_strategy \in {"roulette_wheel", "random", "boltzmann"}
    /\ n_matings(c) = 0

\* select_parents(fitness) with the random values d; prob_intervals is the
\* table of the solver, under boltzmann the table just rebuilt
select_parents(c, fitness, prob_intervals, d) ==
    LET nm == n_matings(c)
    IN  IF c.selection_strategy \in {"roulette_wheel", "random", "boltzmann"}
        THEN [ma |-> [i \in 0 .. nm - 1 |-> interval_selection(d.ma[i], prob_intervals.val)],
              pa |-> [i \in 0 .. nm - 1 |-> interval_selection(d.pa[i], prob_intervals.val)]]
        ELSE IF c.selection_strategy = "two_by_two"
        THEN LET range_max == nm * 2
             IN  \* np.arange(range_max)[::2], np.arange(range_max)[1::2]
                 [ma |-> [i \in 0 .. ((range_max + 1) \div 2) - 1 |-> 2 * i],
                  pa |-> [i \in 0 .. (range_max \div 2) - 1 |-> 2 * i + 1]]
        ELSE \* tournament
             [ma |-> [i \in 0 .. nm - 1 |-> tournament_selection_helper(d.ma[i], fitness)],
              pa |-> [i \in 0 .. nm - 1 |-> tournament_selection_helper(d.pa[i], fitness)]]

\* ------------------------------------------------- crossover and mutation
Chromosomes(c) == [0 .. c.n_genes - 1 -> GeneValues]
Populations(c) == [0 .. c.pop_size - 1 -> Chromosomes(c)]
Range0(a) == {a[i] : i \in DOMAIN a}

\* np.random.choice(np.arange(len(allowed_mutation_genes)), n_crossover_points,
\* replace=False): the index sets one call can draw
CrossoverChoices(c) ==
    {S \in SUBSET (0 .. Len0(allowed_mutation_genes(c)) - 1) :
        Cardinality(S) = c.n_crossover_points}
\* get_crossover_points returns np.asarray(crossover_points).sort(): ndarray.sort
\* sorts in place and returns None, whatever was drawn.
get_crossover_points(crossover_points) == None

\* create_offspring of the chromosome representation: segments alternate
\* between the parents at each crossover point, the first parent giving the
\* first segment.  Without crossover points (None) the boundaries are not
\* defined: any gene-wise mix of the two parents.
create_offspring(first_parent, sec_parent, crossover_pt, offspring_number) ==
    IF crossover_pt.none
    THEN {o \in [DOMAIN first_parent -> GeneValues] :
             \A g \in DOMAIN first_parent : o[g] \in {first_parent[g], sec_parent[g]}}
    ELSE {[g \in DOMAIN first_parent |->
             IF Cardinality({x \in crossover_pt.val : x <= g}) % 2 = 0
             THEN first_parent[g] ELSE sec_parent[g]]}

\* ix = np.arange(0, pop_size - pop_keep - 1, 2)
ix(c) == [i \in 0 .. Ceil(c.pop_size - pop_keep(c) - 1, 2) - 1 |-> 2 * i]

\* for i in range(xp.shape[0]): the two offspring of mating i are written to
\* rows -1 - ix[i] and -1 - ix[i] - 1; each parent row is read when its
\* offspring is created.  The populations the loop can end with, from mating i,
\* each with the create_offspring calls made: the arguments passed, the rows
\* they were read from and the row the result was written to.
RECURSIVE Matings(_, _, _, _, _, _, _)
Matings(c, population, ma, pa, xp, i, calls) ==
    IF i >= Len0(xp) THEN {[population |-> population, calls |-> calls]}
    ELSE UNION {
        LET after_first == Put(population, -1 - ix(c)[i], first)
            first_call == [first_parent |-> At(population, ma[i]),
                           sec_parent |-> At(population, pa[i]),
                           crossover_pt |-> xp[i], offspring_number |-> "first",
                           read |-> <<ma[i], pa[i]>>,
                           row |-> c.pop_size - 1 - ix(c)[i]]
            second_call == [first_parent |-> At(after_first, pa[i]),
                            sec_parent |-> At(after_first, ma[i]),
                            crossover_pt |-> xp[i], offspring_number |-> "second",
                            read |-> <<pa[i], ma[i]>>,
                            row |-> c.pop_size - 1 - ix(c)[i] - 1]
        IN  UNION { Matings(c, Put(after_first, -1 - ix(c)[i] - 1, second),
                            ma, pa, xp, i + 1,
                            Append0(Append0(calls, first_call), second_call)) :
                    second \in create_offspring(At(after_first, pa[i]),
                                                At(after_first, ma[i]), xp[i], "second") }
        : first \in create_offspring(At(population, ma[i]), At(population, pa[i]),
                                     xp[i], "first") }
Recombine(c, population, ma, pa, xp, i) ==
    {m.population : m \in Matings(c, population, ma, pa, xp, i, Empty0)}

\* (a choice over arange(0, pop_size) would also mutate the best row)
MutationRowsAnyRow(c) ==
    [0 .. get_number_mutations(c) - 1 -> 0 .. c.pop_size - 1]
\* mutate_population: the rows and columns of the n_mutations events
\* np.random.choice(np.arange(1, pop_size), n_mutations, replace=True)
MutationRows(c) ==
    [0 .. get_number_mutations(c) - 1 -> 1 .. c.pop_size - 1]
\* (a choice over arange(n_genes) would also reach the excluded genes)
MutationColsAnyGene(c) ==
    [0 .. get_number_mutations(c) - 1 -> 0 .. c.n_genes - 1]
\* np.random.choice(allowed_mutation_genes, n_mutations, replace=True)
MutationCols(c) ==
    [0 .. get_number_mutations(c) - 1 -> Range0(allowed_mutation_genes(c))]
\* the new gene values of the chromosome representation, one per event
MutationValues(c) ==
    [0 .. get_number_mutations(c) - 1 -> GeneValues]
\* the events applied in order: the last write to a cell wins
RECURSIVE ApplyMutations(_, _, _, _, _)
ApplyMutations(population, rows, cols, vals, k) ==
    IF k >= Len0(rows) THEN population
    ELSE ApplyMutations([population EXCEPT ![rows[k]][cols[k]] = vals[k]],
                        rows, cols, vals, k + 1)

\* np.random.choice of an empty allowed_mutation_genes raises ValueError when
\* a sample is asked for
mutate_population_raises(c) ==
    Len0(allowed_mutation_genes(c)) = 0 /\ get_number_mutations(c) > 0

\* the populations mutate_population can return
mutate_population(c, population) ==
    {ApplyMutations(population, rows, cols, vals, 0) :
        rows \in MutationRows(c), cols \in MutationCols(c), vals \in MutationValues(c)}

\* ---------------------------------------------------------- deduplication
\* pruned_pop: row 0, then every row that differs from the last row kept
RECURSIVE PrunedPop(_, _, _)
PrunedPop(population, pruned_pop, i) ==
    IF i >= Len0(population) THEN pruned_pop
    ELSE PrunedPop(population,
                   IF population[i] # pruned_pop[Len0(pruned_pop) - 1]
                   THEN Append0(pruned_pop, population[i])
                   ELSE pruned_pop,
                   i + 1)
\* (a pruning of every repeated row, adjacent or not, would keep first occurrences)
prune_unique(population) ==
    LET first == {i \in DOMAIN population : \A j \in DOMAIN population :
                     j < i => population[j] # population[i]}
    IN  [j \in 0 .. Cardinality(first) - 1 |->
            population[CHOOSE i \in first : Cardinality({x \in first : x < i}) = j]]
prune(population) == PrunedPop(population, [i \in {0} |-> population[0]], 1)
\* (one row less than the deficit would leave the population short)
nrefill_short(c, pruned_pop) == c.pop_size - Len0(pruned_pop) - 1
\* nrefill = self.pop_size - pruned_pop.shape[0]
nrefill(c, pruned_pop) == c.pop_size - Len0(pruned_pop)
\* refill_population(nrefill) of the chromosome representation: nrefill new rows
refill_population(c, n) == [0 .. n - 1 -> Chromosomes(c)]

\* np.isclose(a, b): |a - b| <= 1e-8 + 1e-5 * |b|, both sides times 1e8
isclose(a, b) == 100000000 * Abs(a - b) <= 1 + 1000 * Abs(b)

\* (the best value in place of the mean)
mean_is_best(fitness) == <<fitness[0], 1>>
\* fitness.mean() as a fraction
mean(fitness) == <<Sum0(fitness), Len0(fitness)>>

\* -------------------------------------------------------------------- state
VARIABLES
    cfg,    \* the constructor's arguments, fixed after __init__
    self,   \* the attributes of the solver object
    loc,    \* the local variables of the running solve call
    pc,     \* where the solver is: "idle" between calls, else the step of solve
    aux,    \* history: the call's argument, initialize_population calls, last events
    np_random,  \* the state of numpy's process-wide generator
    solvers,    \* two more solvers of one process: their phase and trajectory
    cache       \* the module-level lru caches, oldest entry first

vars == <<cfg, self, loc, pc, aux, np_random, solvers, cache>>

\* The constructor's arguments explored.  DefaultConfig is the default
\* strategy on a population of four: two parents kept, one mating replaces the
\* two last rows (one gene: the fitness takes two values).  Small is a population of three paired two by two: two
\* parents kept, no mating.  Around them: duplicate pruning, every loop bound,
\* the smallest population, two genes with one excluded, each strategy.
DefaultConfig ==
    [n_genes |-> 1, pop_size |-> 4, selection_rate |-> <<1, 2>>,
     mutation_rate |-> <<1, 4>>, selection_strategy |-> "roulette_wheel",
     excluded_genes |-> {}, n_crossover_points |-> 1,
     max_gen |-> 2, max_conv |-> 3, prune_duplicates |-> FALSE, random_state |-> 0]
Small ==
    [DefaultConfig EXCEPT !.pop_size = 3, !.selection_strategy = "two_by_two",
                          !.max_gen = 3]
Configs ==
    { DefaultConfig,
      [DefaultConfig EXCEPT !.selection_strategy = "tournament"],
      [DefaultConfig EXCEPT !.selection_strategy = "boltzmann"],
      [DefaultConfig EXCEPT !.selection_strategy = "two_by_two"],
      [DefaultConfig EXCEPT !.selection_strategy = "two_by_two", !.prune_duplicates = TRUE],
      [DefaultConfig EXCEPT !.selection_strategy = "random", !.selection_rate = <<1, 1>>],
      Small,
      [Small EXCEPT !.prune_duplicates = TRUE],
      [Small EXCEPT !.max_conv = 0],
      [Small EXCEPT !.max_gen = 1],
      [Small EXCEPT !.pop_size = 2],
      [Small EXCEPT !.n_genes = 2, !.excluded_genes = {1}, !.max_gen = 2] }

NoFrame ==
    [mean_fitness |-> Empty0, max_fitness |-> Empty0, population |-> Empty0,
     fitness |-> Empty0, printable_fitness |-> Empty0, gen_n |-> 0, conv |-> 0,
     niter |-> 0, it |-> 0, ma |-> Empty0, pa |-> Empty0, xp |-> Empty0]
NoEvents ==
    [mutation_rows |-> Empty0, mutation_cols |-> Empty0, kept |-> 0, nrefill |-> 0,
     mutated |-> Empty0, selected |-> Empty0, calls |-> Empty0]

NoSolvers == [s \in {"a", "b"} |-> [phase |-> "absent", trajectory |-> Empty0]]

\* the module-level caches of the memoized evaluations, empty at import
NoCache ==
    [f \in {"calculate_one_fitness_cache_selfies", "calculate_one_fitness_cache_smiles",
             "calculate_one_fitness_cache_xyz"} |-> Empty0]

NoHistory == [init_calls |-> 0, gen0 |-> 0, arg |-> None, ev |-> NoEvents]

\* the attributes __init__ leaves on a solver built with the arguments c
Constructed(c) ==
    [generations_ |-> 0, best_individual_ |-> None, best_fitness_ |-> 0,
     best_pfitness_ |-> 0, population_ |-> None, fitness_ |-> None,
     printable_fitness |-> None, mean_fitness_ |-> None, max_fitness_ |-> None,
     prob_intervals |-> get_selection_probabilities(c),
     temperature |-> <<100, 1>>]

\* the solver after __init__
Init ==
    /\ cfg \in Configs
    /\ self = Constructed(cfg)
    /\ loc = NoFrame
    /\ pc = "idle"
    /\ aux = NoHistory
    /\ np_random = cfg.random_state
    /\ solvers = NoSolvers
    /\ cache = NoCache

\* (a history restarted at every call would be empty here)
previous_reset(history_) == Empty0
\* mean_fitness / max_fitness at the start of solve: empty on a fresh solver,
\* else the stored history
previous(history_) == IF history_.none THEN Empty0 ELSE history_.val

SolveArgs == {None} \cup {Some(k) : k \in 0 .. MaxNiter}

\* solve(niter), up to the loop: histories and population from the stored
\* state or fresh, first evaluation and ranking, loop bound
Solve(arg) ==
    /\ pc = "idle"
    /\ \E init \in (IF self.population_.none THEN Populations(cfg) ELSE {Empty0}) :
        LET population == IF self.population_.none THEN init ELSE self.population_.val
            cf == calculate_fitness(population)
            niter == IF arg.none THEN cfg.max_gen ELSE Min2(cfg.max_gen, arg.val)
        IN  /\ self.generations_ + Max2(niter, 0) <= MaxGenerations
            /\ \E s \in {sort_by_fitness(cf.fitness, population, cf.pfitness, order) :
                            order \in argsort(cf.fitness)} :
                  /\ loc' = [NoFrame EXCEPT
                        !.mean_fitness = previous(self.mean_fitness_),
                        !.max_fitness = previous(self.max_fitness_),
                        !.population = s.population,
                        !.fitness = s.fitness,
                        !.printable_fitness = s.pfitness,
                        !.gen_n = 1, !.conv = 0, !.niter = niter]
                  /\ aux' = [aux EXCEPT
                        !.init_calls = IF self.population_.none THEN @ + 1 ELSE @,
                        !.gen0 = self.generations_,
                        !.arg = arg]
                  /\ pc' = IF niter > 0 THEN "generation" ELSE "exit"
    /\ UNCHANGED <<cfg, self, np_random, solvers, cache>>

\* top of the loop body: counters, histories, select_parents (which under
\* boltzmann first rebuilds the table and raises the temperature), crossover
\* points
BeginGeneration ==
    /\ pc = "generation"
    /\ LET boltzmann == cfg.selection_strategy = "boltzmann"
           table == IF boltzmann
                    THEN Some(get_boltzmann_probabilities(cfg, loc.fitness))
                    ELSE self.prob_intervals
       IN  /\ self' = [self EXCEPT
                  !.generations_ = @ + 1,
                  !.prob_intervals = table,
                  !.temperature = IF boltzmann THEN heated(@) ELSE @]
           /\ IF select_parents_raises(cfg)
              THEN /\ loc' = [loc EXCEPT
                          !.gen_n = @ + 1,
                          !.mean_fitness = Append0(@, mean(loc.fitness)),
                          !.max_fitness = Append0(@, loc.fitness[0])]
                   /\ pc' = "raised"
              ELSE /\ \E sel \in {select_parents(cfg, loc.fitness, table, d) :
                                     d \in SelectionDraws(cfg)} :
                      \E choices \in [0 .. n_matings(cfg) - 1 -> CrossoverChoices(cfg)] :
                          loc' = [loc EXCEPT
                              !.gen_n = @ + 1,
                              !.mean_fitness = Append0(@, mean(loc.fitness)),
                              !.max_fitness = Append0(@, loc.fitness[0]),
                              !.ma = sel.ma, !.pa = sel.pa,
                              !.xp = [i \in 0 .. n_matings(cfg) - 1 |->
                                         get_crossover_points(choices[i])]]
                   /\ pc' = "recombine"
    /\ UNCHANGED <<cfg, aux, np_random, solvers, cache>>

\* the offspring loop
Offspring ==
    /\ pc = "recombine"
    /\ \E m \in Matings(cfg, loc.population, loc.ma, loc.pa, loc.xp, 0, Empty0) :
         /\ loc' = [loc EXCEPT !.population = m.population]
         /\ aux' = [aux EXCEPT !.ev = [@ EXCEPT !.selected = loc.population,
                                                !.calls = m.calls]]
    /\ pc' = "mutate"
    /\ UNCHANGED <<cfg, self, np_random, solvers, cache>>

\* population = self.mutate_population(population, self.n_mutations)
Mutate ==
    /\ pc = "mutate"
    /\ \E population \in mutate_population(cfg, loc.population) :
         /\ loc' = [loc EXCEPT !.population = population]
         /\ aux' = [aux EXCEPT !.ev = [NoEvents EXCEPT !.mutated = population]]
    /\ pc' = IF cfg.prune_duplicates THEN "prune" ELSE "evaluate"
    /\ UNCHANGED <<cfg, self, np_random, solvers, cache>>

\* if self.prune_duplicates: adjacent duplicates dropped, the deficit refilled
Prune ==
    /\ pc = "prune"
    /\ LET pruned_pop == prune(loc.population)
           n == nrefill(cfg, pruned_pop)
       IN  \E refill \in refill_population(cfg, n) :
             /\ loc' = [loc EXCEPT
                    !.population = IF n > 0 THEN Concat0(pruned_pop, refill)
                                   ELSE @]
             /\ aux' = [aux EXCEPT !.ev = [@ EXCEPT !.kept = Len0(pruned_pop),
                                                   !.nrefill = Len0(refill)]]
    /\ pc' = "evaluate"
    /\ UNCHANGED <<cfg, self, np_random, solvers, cache>>

\* re-evaluation of rows 1.., ranking, best-individual record, loop exit test
Evaluate ==
    /\ pc = "evaluate"
    /\ LET rest == calculate_fitness(Tail0(loc.population))
           fitness == [i \in 0 .. Len0(rest.fitness) |->
                          IF i = 0 THEN loc.fitness[0] ELSE rest.fitness[i - 1]]
       IN  IF rest.ndim = 0
           THEN \* len(rest_fitness) of a 0-d array raises TypeError
                /\ loc' = [loc EXCEPT !.fitness = fitness]
                /\ pc' = "raised"
                /\ UNCHANGED <<self, aux>>
           ELSE LET printable_fitness ==
                        [i \in DOMAIN loc.printable_fitness |->
                            IF i \in 1 .. Len0(rest.fitness) - 1
                            THEN rest.pfitness[i] ELSE loc.printable_fitness[i]]
                IN  \E s \in {sort_by_fitness(fitness, loc.population,
                                                printable_fitness, order) :
                                    order \in argsort(fitness)} :
                      LET conv == IF isclose(self.best_fitness_, s.fitness[0])
                                  THEN loc.conv + 1 ELSE loc.conv
                      IN  /\ loc' = [loc EXCEPT
                                !.population = s.population, !.fitness = s.fitness,
                                !.printable_fitness = s.pfitness,
                                !.conv = conv, !.it = @ + 1,
                                !.ma = Empty0, !.pa = Empty0, !.xp = Empty0]
                          /\ self' = [self EXCEPT
                                !.best_individual_ = Some(s.population[0]),
                                !.best_fitness_ = s.fitness[0],
                                !.best_pfitness_ = s.pfitness[0]]
                          /\ aux' = [aux EXCEPT !.ev = NoEvents]
                          /\ pc' = IF loc.gen_n >= loc.niter \/ conv > cfg.max_conv
                                      \/ loc.it + 1 >= loc.niter
                                   THEN "exit" ELSE "generation"
    /\ UNCHANGED <<cfg, np_random, solvers, cache>>

\* after the loop: the run state is stored on the solver
Return ==
    /\ pc = "exit"
    /\ self' = [self EXCEPT
           !.population_ = Some(loc.population),
           !.fitness_ = Some(loc.fitness),
           !.printable_fitness = Some(loc.printable_fitness),
           !.mean_fitness_ = Some(loc.mean_fitness),
           !.max_fitness_ = Some(loc.max_fitness)]
    /\ loc' = NoFrame
    /\ pc' = "idle"
    /\ UNCHANGED <<cfg, aux, np_random, solvers, cache>>

Next ==
    \/ \E arg \in SolveArgs : Solve(arg)
    \/ BeginGeneration
    \/ Offspring
    \/ Mutate
    \/ Prune
    \/ Evaluate
    \/ Return

Spec == Init /\ [][Next]_vars

\* ----------------------------------------------- the operations on their own
\* Three more specifications apply one operation to inputs drawn from bounded
\* sets: sort_by_fitness to any three arrays of one length, select_parents and
\* mutate_population on solvers of every small configuration.
MaxSortLen == 3
MaxFitness == 2
MaxPopSize == 7
MaxMutationGenes == 3

SortInputs ==
    UNION { [population : [0 .. n - 1 -> Chromosomes(DefaultConfig)],
             fitness : [0 .. n - 1 -> 0 .. MaxFitness],
             printable_fitness : [0 .. n - 1 -> 0 .. MaxFitness]]
            : n \in 1 .. MaxSortLen }

InitSort ==
    /\ cfg = DefaultConfig
    /\ self = Constructed(cfg)
    /\ \E input \in SortInputs :
          loc = [NoFrame EXCEPT !.population = input.population,
                                !.fitness = input.fitness,
                                !.printable_fitness = input.printable_fitness]
    /\ pc = "sort_by_fitness"
    /\ aux = NoHistory
    /\ np_random = cfg.random_state
    /\ solvers = NoSolvers
    /\ cache = NoCache

\* fitness, population, printable_fitness = sort_by_fitness(fitness, population,
\* printable_fitness), on the arrays drawn and once more on its own output
CallSortByFitness ==
    /\ pc \in {"sort_by_fitness", "sorted"}
    /\ \E s \in {sort_by_fitness(loc.fitness, loc.population, loc.printable_fitness, order) :
                    order \in argsort(loc.fitness)} :
          loc' = [loc EXCEPT !.population = s.population, !.fitness = s.fitness,
                             !.printable_fitness = s.pfitness]
    /\ aux' = [aux EXCEPT !.arg = Some([population |-> loc.population,
                                        fitness |-> loc.fitness,
                                        printable_fitness |-> loc.printable_fitness])]
    /\ pc' = IF pc = "sort_by_fitness" THEN "sorted" ELSE "sorted_twice"
    /\ UNCHANGED <<cfg, self, np_random, solvers, cache>>

NextSort == CallSortByFitness
SpecSort == InitSort /\ [][NextSort]_vars

SelectionRates == {<<1, 4>>, <<1, 2>>, <<3, 4>>, <<1, 1>>}
SelectConfigs ==
    {[DefaultConfig EXCEPT !.pop_size = n, !.selection_rate = r,
                           !.selection_strategy = st] :
        n \in 2 .. MaxPopSize, r \in SelectionRates,
        st \in {"roulette_wheel", "random", "two_by_two"}}

\* a ranked fitness array of the population: all equal, or strictly decreasing
RankedFitness(c) ==
    {[i \in 0 .. c.pop_size - 1 |-> 0], [i \in 0 .. c.pop_size - 1 |-> c.pop_size - i]}

InitSelect ==
    /\ cfg \in SelectConfigs
    /\ self = Constructed(cfg)
    /\ \E fitness \in RankedFitness(cfg) : loc = [NoFrame EXCEPT !.fitness = fitness]
    /\ pc = "select_parents"
    /\ aux = NoHistory
    /\ np_random = cfg.random_state
    /\ solvers = NoSolvers
    /\ cache = NoCache

\* ma, pa = self.select_parents(fitness)
CallSelectParents ==
    /\ pc = "select_parents"
    /\ IF select_parents_raises(cfg)
       THEN /\ pc' = "raised"
            /\ UNCHANGED loc
       ELSE /\ \E sel \in {select_parents(cfg, loc.fitness, self.prob_intervals, d) :
                              d \in SelectionDraws(cfg)} :
                  loc' = [loc EXCEPT !.ma = sel.ma, !.pa = sel.pa]
            /\ pc' = "selected"
    /\ UNCHANGED <<cfg, self, aux, np_random, solvers, cache>>

NextSelect == CallSelectParents
SpecSelect == InitSelect /\ [][NextSelect]_vars

MutationRates == {<<1, 4>>, <<1, 3>>, <<1, 2>>}
MutateConfigs ==
    UNION { {[DefaultConfig EXCEPT !.pop_size = n, !.n_genes = g,
                                   !.excluded_genes = e, !.mutation_rate = m] :
                n \in 2 .. 3, e \in SUBSET (0 .. g - 1), m \in MutationRates}
            : g \in 1 .. MaxMutationGenes }

InitMutate ==
    /\ cfg \in MutateConfigs
    /\ self = Constructed(cfg)
    /\ loc = [NoFrame EXCEPT
                 !.population = [i \in 0 .. cfg.pop_size - 1 |->
                                    [g \in 0 .. cfg.n_genes - 1 |-> 0]]]
    /\ pc = "mutate_population"
    /\ aux = NoHistory
    /\ np_random = cfg.random_state
    /\ solvers = NoSolvers
    /\ cache = NoCache

\* population = self.mutate_population(population, self.n_mutations), the rows
\* and columns of its events kept
CallMutatePopulation ==
    /\ pc = "mutate_population"
    /\ IF mutate_population_raises(cfg)
       THEN /\ pc' = "raised"
            /\ UNCHANGED <<loc, aux>>
       ELSE /\ \E rows \in MutationRows(cfg), cols \in MutationCols(cfg),
                  vals \in MutationValues(cfg) :
                  /\ loc' = [loc EXCEPT
                         !.population = ApplyMutations(@, rows, cols, vals, 0)]
                  /\ aux' = [aux EXCEPT
                         !.arg = Some(loc.population),
                         !.ev = [@ EXCEPT !.mutation_rows = rows,
                                          !.mutation_cols = cols]]
            /\ pc' = "mutated"
    /\ UNCHANGED <<cfg, self, np_random, solvers, cache>>

NextMutate == CallMutatePopulation
SpecMutate == InitMutate /\ [][NextMutate]_vars


\* ------------------------------------------------ the process-wide generator
\* np.random is one generator for the whole process: np.random.seed sets its
\* state, every draw advances it.  The generator here is a linear congruential
\* one; a draw below n is taken from the high bits of the new state.
RngModulus == 16
MaxSeed == 7
rng_next(x) == (5 * x + 3) % RngModulus
rng_value(x, n) == (x \div 4) % n
\* k successive draws below n from state x: the values and the state reached
RECURSIVE DrawMany(_, _, _)
DrawMany(x, n, k) ==
    IF k = 0 THEN [state |-> x, vals |-> Empty0]
    ELSE LET y == rng_next(x)
             rest == DrawMany(y, n, k - 1)
         IN  [state |-> rest.state,
              vals |-> Concat0([i \in {0} |-> rng_value(y, n)], rest.vals)]

\* np.argsort on one input always returns one order; for arrays this short the
\* sort is an insertion sort, which keeps equal values in index order
argsort_stable(fitness) ==
    CHOOSE order \in argsort(fitness) :
        \A i, j \in DOMAIN order :
            (i < j /\ fitness[order[i]] = fitness[order[j]]) => order[i] < order[j]

\* The loop of solve from generation gen_n on a solver without mating
\* (n_matings = 0, two_by_two) and without pruning, every draw taken from the
\* generator in state x: the best fitness after each generation and the
\* generator's state at the end.
RECURSIVE Generations(_, _, _, _, _, _, _, _)
Generations(c, population, fitness, gen_n, conv, best_fitness_, x, trajectory) ==
    LET n == get_number_mutations(c)
        allowed == allowed_mutation_genes(c)
        rows == DrawMany(x, c.pop_size - 1, n)
        cols == DrawMany(rows.state, Len0(allowed), n)
        vals == DrawMany(cols.state, Cardinality(GeneValues), n)
        mutated == ApplyMutations(population,
                                  [k \in DOMAIN rows.vals |-> rows.vals[k] + 1],
                                  [k \in DOMAIN cols.vals |-> allowed[cols.vals[k]]],
                                  vals.vals, 0)
        rest == calculate_fitness(Tail0(mutated))
        refit == [i \in 0 .. Len0(rest.fitness) |->
                     IF i = 0 THEN fitness[0] ELSE rest.fitness[i - 1]]
        s == sort_by_fitness(refit, mutated, refit, argsort_stable(refit))
        conv2 == IF isclose(best_fitness_, s.fitness[0]) THEN conv + 1 ELSE conv
        trajectory2 == Append0(trajectory, s.fitness[0])
    IN  IF gen_n + 1 >= c.max_gen \/ conv2 > c.max_conv
        THEN [trajectory |-> trajectory2, state |-> vals.state]
        ELSE Generations(c, s.population, s.fitness, gen_n + 1, conv2,
                         s.fitness[0], vals.state, trajectory2)

\* initialize_population of the chromosome representation: every gene drawn
\* from the generator
initialize_population(c, x) ==
    LET d == DrawMany(x, Cardinality(GeneValues), c.pop_size * c.n_genes)
    IN  [population |-> [i \in 0 .. c.pop_size - 1 |->
                            [g \in 0 .. c.n_genes - 1 |-> d.vals[i * c.n_genes + g]]],
         state |-> d.state]

\* solve() on a fresh solver with the generator in state x
RunSolve(c, x) ==
    LET init == initialize_population(c, x)
        cf == calculate_fitness(init.population)
        s == sort_by_fitness(cf.fitness, init.population, cf.pfitness,
                             argsort_stable(cf.fitness))
    IN  Generations(c, s.population, s.fitness, 1, 0, 0, init.state, Empty0)

RngConfigs ==
    {[Small EXCEPT !.n_genes = g, !.max_gen = 4, !.random_state = seed] :
        g \in 1 .. 2, seed \in 0 .. MaxSeed}

\* two solvers a and b are built with the arguments cfg and solved, in any
\* order, in a process whose generator is in any state
InitRng ==
    /\ cfg \in RngConfigs
    /\ self = Constructed(cfg)
    /\ loc = NoFrame
    /\ pc = "idle"
    /\ aux = NoHistory
    /\ np_random \in 0 .. RngModulus - 1
    /\ solvers = NoSolvers
    /\ cache = NoCache

\* GenAlgSolver(..., random_state=seed): np.random.seed(random_state)
Construct(s) ==
    /\ solvers[s].phase = "absent"
    /\ np_random' = cfg.random_state % RngModulus
    /\ solvers' = [solvers EXCEPT ![s].phase = "constructed"]
    /\ UNCHANGED <<cfg, self, loc, pc, aux, cache>>

\* s.solve(), start to return
SolveRun(s) ==
    /\ solvers[s].phase = "constructed"
    /\ LET run == RunSolve(cfg, np_random)
       IN  /\ np_random' = run.state
           /\ solvers' = [solvers EXCEPT ![s].phase = "solved",
                                         ![s].trajectory = run.trajectory]
    /\ UNCHANGED <<cfg, self, loc, pc, aux, cache>>

NextRng ==
    \/ \E s \in DOMAIN solvers : Construct(s)
    \/ \E s \in DOMAIN solvers : SolveRun(s)
SpecRng == InitRng /\ [][NextRng]_vars


\* ----------------------------------------------------------- recombination
\* The first steps of solve on larger populations: ranking, selection and the
\* offspring loop.
MaxMatingSize == 6
RecombineConfigs ==
    {[DefaultConfig EXCEPT !.pop_size = n, !.selection_rate = r,
                           !.selection_strategy = st] :
        n \in 4 .. MaxMatingSize, r \in {<<1, 4>>, <<1, 2>>},
        st \in {"roulette_wheel", "two_by_two"}}

InitRecombine ==
    /\ cfg \in RecombineConfigs
    /\ self = Constructed(cfg)
    /\ loc = NoFrame
    /\ pc = "idle"
    /\ aux = NoHistory
    /\ np_random = cfg.random_state
    /\ solvers = NoSolvers
    /\ cache = NoCache

NextRecombine ==
    \/ Solve(None)
    \/ BeginGeneration
    \/ Offspring
SpecRecombine == InitRecombine /\ [][NextRecombine]_vars

\* ------------------------------------------------------------- construction
\* __init__ with arguments that may be wrong.  A python argument is modelled
\* by what the checks look at: a callable by its name (None when absent),
\* excluded_genes by its type and, for a sequence, its items.
allowed_selection_strategies ==
    {"roulette_wheel", "two_by_two", "random", "tournament", "boltzmann"}

SequenceTypes == {"list", "tuple", "ndarray"}

ConstructorArgs ==
    [n_genes : {2},
     fitness_function : {None, Some("fitness_function")},
     hashable_fitness_function : {None, Some("hashable_fitness_function")},
     class_attrs : {{}, {"fitness_function"}, {"hashable_fitness_function"}},
     selection_strategy : allowed_selection_strategies \cup {"rank"},
     pop_size : {1, 2, 4},
     excluded_genes : {[type |-> "NoneType", items |-> {}],
                       [type |-> "list", items |-> {1}],
                       [type |-> "tuple", items |-> {}],
                       [type |-> "ndarray", items |-> {0}],
                       [type |-> "set", items |-> {1}],
                       [type |-> "int", items |-> {}]},
     lru_cache : BOOLEAN,
     problem_type : {"base", "smiles"}]

\* the object before __init__ runs: what its class defines, and the two
\* attributes __init__ sets before the checks
NewObject(args) ==
    [fitness_function |->
         IF "fitness_function" \in args.class_attrs THEN Some("method") ELSE None,
     hashable_fitness_function |->
         IF "hashable_fitness_function" \in args.class_attrs
         THEN Some("method") ELSE None,
     allowed_mutation_genes |-> [g \in 0 .. args.n_genes - 1 |-> g],
     calculate_fitness |-> "calculate_fitness"]

\* (checks that let a population of fewer than two rows through)
check_input_base_any_size(obj, evaluator, selection_strategy, pop_size, excluded_genes) ==
    IF evaluator.none /\ obj.fitness_function.none
    THEN [raised |-> Some("NoFitnessFunction"), obj |-> obj]
    ELSE IF selection_strategy \notin allowed_selection_strategies
              \/ excluded_genes.type \notin SequenceTypes \cup {"NoneType"}
         THEN [raised |-> Some("InvalidInput"), obj |-> obj]
         ELSE [raised |-> None,
               obj |-> IF evaluator.none THEN obj
                       ELSE [obj EXCEPT !.fitness_function = evaluator]]

\* check_input_base: the exception it raises, if any, and the object it leaves
check_input_base(obj, evaluator, selection_strategy, pop_size, excluded_genes) ==
    LET bound == IF evaluator.none THEN obj
                 ELSE [obj EXCEPT !.fitness_function = evaluator]
    IN  IF evaluator.none /\ obj.fitness_function.none
        THEN [raised |-> Some("NoFitnessFunction"), obj |-> obj]
        ELSE IF selection_strategy \notin allowed_selection_strategies
        THEN [raised |-> Some("InvalidInput"), obj |-> bound]
        ELSE IF pop_size < 2
        THEN [raised |-> Some("InvalidInput"), obj |-> bound]
        ELSE IF excluded_genes.type \in SequenceTypes
        THEN [raised |-> None,
              obj |-> [bound EXCEPT !.allowed_mutation_genes =
                          FilterAllowed(Len0(@), excluded_genes.items, 0)]]
        ELSE IF excluded_genes.type # "NoneType"
        THEN [raised |-> Some("InvalidInput"), obj |-> bound]
        ELSE [raised |-> None, obj |-> bound]

\* check_input_base_cache: the same checks for the hashable evaluator; the
\* allowed genes, already filtered, are filtered once more
check_input_base_cache(obj, hashable_evaluator, selection_strategy, pop_size, excluded_genes) ==
    LET bound == IF hashable_evaluator.none THEN obj
                 ELSE [obj EXCEPT !.hashable_fitness_function =
                                      hashable_evaluator]
    IN  IF hashable_evaluator.none /\ obj.hashable_fitness_function.none
        THEN [raised |-> Some("NoFitnessFunction"), obj |-> obj]
        ELSE IF selection_strategy \notin allowed_selection_strategies
        THEN [raised |-> Some("InvalidInput"), obj |-> bound]
        ELSE IF pop_size < 2
        THEN [raised |-> Some("InvalidInput"), obj |-> bound]
        ELSE IF excluded_genes.type \in SequenceTypes
        THEN [raised |-> None,
              obj |-> [bound EXCEPT !.allowed_mutation_genes =
                          [i \in 0 .. Cardinality({j \in DOMAIN @ :
                                        @[j] \notin excluded_genes.items}) - 1 |->
                              @[CHOOSE j \in DOMAIN @ :
                                  /\ @[j] \notin excluded_genes.items
                                  /\ Cardinality({k \in DOMAIN @ : k < j
                                        /\ @[k] \notin excluded_genes.items}) = i]]]]
        ELSE IF excluded_genes.type # "NoneType"
        THEN [raised |-> Some("InvalidInput"), obj |-> bound]
        ELSE [raised |-> None, obj |-> bound]

\* set_lru_cache: the method calculate_fitness is rebound to
set_lru_cache(problem_type) ==
    CASE problem_type = "selfies" -> "calculate_fitness_cache_selfies"
      [] problem_type = "smiles" -> "calculate_fitness_cache_smiles"
      [] problem_type = "xyz" -> "calculate_fitness_cache_xyz"
      [] OTHER -> "calculate_fitness_cache"

\* __init__ as far as the evaluators and the checks go
GenAlgSolverInit(args) ==
    LET evaluator ==
            IF args.fitness_function.none /\ ~args.hashable_fitness_function.none
            THEN args.hashable_fitness_function ELSE args.fitness_function
        base == check_input_base(NewObject(args), evaluator,
                                 args.selection_strategy, args.pop_size,
                                 args.excluded_genes)
        cached == IF base.raised.none /\ args.lru_cache
                  THEN check_input_base_cache(base.obj, args.hashable_fitness_function,
                                              args.selection_strategy, args.pop_size,
                                              args.excluded_genes)
                  ELSE base
    IN  IF ~cached.raised.none THEN cached
        ELSE [raised |-> None,
              obj |-> [cached.obj EXCEPT
                          !.hashable_fitness_function = args.hashable_fitness_function,
                          !.calculate_fitness =
                              IF args.lru_cache THEN set_lru_cache(args.problem_type)
                              ELSE @]]

InitConstruct ==
    /\ cfg \in ConstructorArgs
    /\ self = NewObject(cfg)
    /\ loc = NoFrame
    /\ pc = "construct"
    /\ aux = [raised |-> None]
    /\ np_random = 0
    /\ solvers = NoSolvers
    /\ cache = NoCache

\* GenAlgSolver(...): the object is there when no check raises
GenAlgSolver ==
    /\ pc = "construct"
    /\ LET made == GenAlgSolverInit(cfg)
       IN  /\ self' = made.obj
           /\ aux' = [aux EXCEPT !.raised = made.raised]
           /\ pc' = IF made.raised.none THEN "idle" ELSE "raised"
    /\ UNCHANGED <<cfg, loc, np_random, solvers, cache>>

NextConstruct == GenAlgSolver
SpecConstruct == InitConstruct /\ [][NextConstruct]_vars


\* ------------------------------------------------------------------ caching
\* functools.lru_cache(maxsize=128) around the three module-level functions
maxsize == 128
\* the canonical keys the evaluated populations are written from, and how
\* often a population comes back to key 0
MaxKey == 129
RevisitEvery == 32

\* the evaluator on a canonical key, and the canonical key of a chromosome:
\* two chromosomes that write the same thing have one key
hashable_fitness_function(key) == (3 * key + 1) % 7
sc2smiles(chromosome) == Sum0(chromosome)

\* (a wrapper that calls the wrapped function on every call)
lru_cache_call_always(entries, arg, function) ==
    LET value == hashable_fitness_function(arg)
        kept == IF Len0(entries) >= maxsize THEN Tail0(entries) ELSE entries
    IN  [value |-> value, invoked |-> TRUE,
         entries |-> Append0(kept, [key |-> <<arg, function>>, value |-> value])]

\* one call of an lru_cache-wrapped function with the arguments (arg, function):
\* a hit returns the stored value and makes the entry the most recent one;
\* a miss calls the function, drops the oldest entry of a full cache and
\* stores the result as the most recent entry
lru_cache_call(entries, arg, function) ==
    LET key == <<arg, function>>
        hit == {i \in DOMAIN entries : entries[i].key = key}
    IN  IF hit # {}
        THEN LET i == CHOOSE i \in hit : TRUE
                 last == Len0(entries) - 1
             IN  [value |-> entries[i].value, invoked |-> FALSE,
                  entries |-> [j \in DOMAIN entries |->
                                  IF j < i THEN entries[j]
                                  ELSE IF j < last THEN entries[j + 1]
                                  ELSE entries[i]]]
        ELSE LET value == hashable_fitness_function(arg)
                 kept == IF Len0(entries) >= maxsize THEN Tail0(entries) ELSE entries
             IN  [value |-> value, invoked |-> TRUE,
                  entries |-> Append0(kept, [key |-> key, value |-> value])]

\* the cache a rebound calculate_fitness goes through
CacheOf(method) ==
    CASE method = "calculate_fitness_cache_selfies" ->
             "calculate_one_fitness_cache_selfies"
      [] method = "calculate_fitness_cache_smiles" ->
             "calculate_one_fitness_cache_smiles"
      [] OTHER -> "calculate_one_fitness_cache_xyz"

\* the loop over the rows of calculate_fitness_cache_smiles (key sc2smiles of
\* the row) and of calculate_fitness_cache (key self.fitness_function of the
\* row), from row i on; calls lists, for every call of the evaluator, the key
\* and whether the cache held it at that moment
RECURSIVE CachedRows(_, _, _, _, _, _)
CachedRows(obj, population, i, entries, fitness, calls) ==
    IF i = Len0(population) THEN [entries |-> entries, fitness |-> fitness,
                                  calls |-> calls]
    ELSE LET chromosome == Take0(population[i], Len0(population[i]))
             arg == IF obj.calculate_fitness = "calculate_fitness_cache_smiles"
                    THEN sc2smiles(chromosome)
                    ELSE fitness_function(chromosome)
             function == obj.hashable_fitness_function.val
             one == lru_cache_call(entries, arg, function)
         IN  CachedRows(obj, population, i + 1, one.entries,
                        Append0(fitness, one.value),
                        IF one.invoked
                        THEN Append0(calls,
                                 [key |-> <<arg, function>>,
                                  cached |-> \E j \in DOMAIN entries :
                                                entries[j].key = <<arg, function>>])
                        ELSE calls)

\* calculate_fitness_cache_smiles and calculate_fitness_cache without a
\* scalarizer.  The latter ends with self.hashable_fitness_function.cache_info(),
\* which a plain function does not have.
calculate_fitness_cache(obj, population, entries) ==
    LET rows == CachedRows(obj, population, 0, entries, Empty0, Empty0)
    IN  [entries |-> rows.entries, calls |-> rows.calls,
         raised |-> IF /\ obj.calculate_fitness = "calculate_fitness_cache"
                       /\ obj.hashable_fitness_function.val # "lru_cache"
                    THEN Some("AttributeError") ELSE None,
         fitness |-> rows.fitness, pfitness |-> rows.fitness]

CacheConfigs ==
    {[n_genes |-> 2, fitness_function |-> Some("fitness_function"),
      hashable_fitness_function |-> Some(c[1]), class_attrs |-> {},
      selection_strategy |-> "roulette_wheel", pop_size |-> 2,
      excluded_genes |-> [type |-> "NoneType", items |-> {}],
      lru_cache |-> TRUE, problem_type |-> c[2]] :
        c \in {<<"function", "smiles">>, <<"lru_cache", "base">>,
               <<"function", "base">>}}

\* the populations evaluated next: a key not used so far (next_key) in its two
\* writings, one row each, or, every RevisitEvery keys and when the keys are
\* used up, key 0 followed by that key
Written(key, a) == [g \in 0 .. 1 |-> IF g = a THEN key ELSE 0]
CachePopulations(next_key) ==
    LET key == Min2(next_key, MaxKey)
    IN  {[i \in 0 .. 1 |-> Written(key, i)]}
        \cup IF next_key % RevisitEvery = 0 \/ next_key > MaxKey
             THEN {[i \in 0 .. 1 |-> IF i = 0 THEN Written(0, 1) ELSE Written(key, 0)]}
             ELSE {}

InitCache ==
    /\ cfg \in CacheConfigs
    /\ self = GenAlgSolverInit(cfg).obj
    /\ loc = NoFrame
    /\ pc = "calculate_fitness"
    /\ aux = [next_key |-> 0, calls |-> Empty0, raised |-> None, evaluations |-> 0]
    /\ np_random = 0
    /\ solvers = NoSolvers
    /\ cache = NoCache

\* self.calculate_fitness(population) on a solver built with lru_cache = True
CallCalculateFitness ==
    /\ pc = "calculate_fitness"
    /\ \E population \in CachePopulations(aux.next_key) :
         LET name == CacheOf(self.calculate_fitness)
             done == calculate_fitness_cache(self, population, cache[name])
         IN  /\ cache' = [cache EXCEPT ![name] = done.entries]
             /\ loc' = [NoFrame EXCEPT
                           !.population = population,
                           !.fitness = IF done.raised.none THEN done.fitness ELSE Empty0,
                           !.printable_fitness =
                               IF done.raised.none THEN done.pfitness ELSE Empty0]
             /\ aux' = [next_key |-> IF \E i \in DOMAIN population :
                                           Sum0(population[i]) >= aux.next_key
                                     THEN Min2(aux.next_key + 1, MaxKey + 1)
                                     ELSE aux.next_key,
                        calls |-> done.calls, raised |-> done.raised,
                        evaluations |-> 1]
    /\ UNCHANGED <<cfg, self, pc, np_random, solvers>>

NextCache == CallCalculateFitness
SpecCache == InitCache /\ [][NextCache]_vars


\* ------------------------------------------------------------------ claims
\* a state between two generations, or after the last one of a call
EndOfGeneration == pc \in {"generation", "exit"} /\ loc.it >= 1
\* solve has returned and left its run state on the solver
Returned == pc = "idle" /\ ~self.population_.none

NonIncreasing(a) == \A i, j \in DOMAIN a : i < j => a[i] >= a[j]
Paired(fitness, population) ==
    /\ DOMAIN fitness = DOMAIN population
    /\ \A i \in DOMAIN population : fitness[i] = fitness_function(population[i])

\* C1: the population holds exactly pop_size chromosomes at the start and at
\* the end of every generation, with and without prune_duplicates; when
\* deduplication keeps pop_size - k rows, exactly k refill rows are appended
\* before the re-evaluation.
C1_PopulationSize ==
    /\ pc \in {"generation", "exit"} => Len0(loc.population) = cfg.pop_size
    /\ pc = "evaluate" =>
        /\ Len0(loc.population) = cfg.pop_size
        /\ cfg.prune_duplicates => aux.ev.kept + aux.ev.nrefill = cfg.pop_size
C1_Witness ==
    /\ pc = "evaluate"
    /\ cfg.prune_duplicates
    /\ aux.ev.nrefill >= 1
    /\ aux.ev.kept + aux.ev.nrefill = cfg.pop_size
    /\ Len0(loc.population) = cfg.pop_size

\* C2 as stated: at the end of every generation and whenever solve returns, the
\* fitness array is non-increasing, fitness[i] is the evaluator's value of row
\* i, best_individual_ is row 0 and best_fitness_ is the largest fitness.
C2_Original ==
    /\ EndOfGeneration =>
        /\ NonIncreasing(loc.fitness)
        /\ Paired(loc.fitness, loc.population)
        /\ self.best_individual_ = Some(loc.population[0])
        /\ self.best_fitness_ = loc.fitness[0]
    /\ Returned =>
        /\ NonIncreasing(self.fitness_.val)
        /\ Paired(self.fitness_.val, self.population_.val)
        /\ self.best_individual_ = Some(self.population_.val[0])
        /\ self.best_fitness_ = self.fitness_.val[0]
\* C2 amended: the same, the best-individual record being row 0 and the
\* largest fitness when the returning call has executed at least one
\* generation (a call of zero generations leaves the record as it was).
C2_RankedAndPaired ==
    /\ EndOfGeneration =>
        /\ NonIncreasing(loc.fitness)
        /\ Paired(loc.fitness, loc.population)
        /\ self.best_individual_ = Some(loc.population[0])
        /\ self.best_fitness_ = loc.fitness[0]
        /\ \A i \in DOMAIN loc.fitness : loc.fitness[i] <= self.best_fitness_
    /\ Returned =>
        /\ NonIncreasing(self.fitness_.val)
        /\ Paired(self.fitness_.val, self.population_.val)
        /\ self.generations_ > aux.gen0 =>
            /\ self.best_individual_ = Some(self.population_.val[0])
            /\ self.best_fitness_ = self.fitness_.val[0]
            /\ \A i \in DOMAIN self.fitness_.val :
                   self.fitness_.val[i] <= self.best_fitness_
C2_Witness ==
    /\ Returned
    /\ self.generations_ - aux.gen0 >= 2
    /\ self.fitness_.val[0] > self.fitness_.val[cfg.pop_size - 1]
    /\ self.best_individual_ = Some(self.population_.val[0])

\* C3: at the end of every generation the printable fitness has the length of
\* the population, printable_fitness[i] is the raw evaluator output of row i,
\* and best_pfitness_ is the raw fitness of best_individual_.
C3_PrintablePaired ==
    EndOfGeneration =>
        /\ Len0(loc.printable_fitness) = Len0(loc.population)
        /\ \A i \in DOMAIN loc.population :
               loc.printable_fitness[i] = fitness_function(loc.population[i])
        /\ self.best_pfitness_ = fitness_function(self.best_individual_.val)

\* the niter solve works with: min(niter, max_gen), or max_gen without niter
Budget == IF aux.arg.none THEN cfg.max_gen ELSE Min2(aux.arg.val, cfg.max_gen)
\* C5: when the stagnation counter does not exceed max_conv, a solve call
\* executes exactly min(niter, max_gen) generations (max_gen without niter),
\* and generations_ grows by that number.
C5_GenerationsExecuted ==
    (pc = "exit" /\ loc.conv <= cfg.max_conv) =>
        /\ loc.it = Budget
        /\ self.generations_ - aux.gen0 = Budget

\* C6: a solve call on a solver that has completed a solve call does not call
\* initialize_population and starts from the stored population_; generations_,
\* the two histories, the best-individual record and the temperature continue
\* from their stored values and are never reset by the new call.
SameRows(p, q) ==
    /\ DOMAIN p = DOMAIN q
    /\ \A r \in Range0(p) :
           Cardinality({i \in DOMAIN p : p[i] = r}) = Cardinality({i \in DOMAIN q : q[i] = r})
Prefix0(a, b) == Len0(a) <= Len0(b) /\ \A i \in DOMAIN a : a[i] = b[i]
C6_ResumeStep ==
    (~self.population_.none) =>
        /\ aux'.init_calls = aux.init_calls
        /\ self'.generations_ >= self.generations_
        /\ ~FracGt(self.temperature, self'.temperature)
        /\ ~self'.best_individual_.none \/ self.best_individual_.none
        /\ ~self'.population_.none
        /\ Prefix0(self.mean_fitness_.val, self'.mean_fitness_.val)
        /\ Prefix0(self.max_fitness_.val, self'.max_fitness_.val)
        /\ (pc = "idle" /\ pc' # "idle") =>
            /\ SameRows(loc'.population, self.population_.val)
            /\ loc'.mean_fitness = self.mean_fitness_.val
            /\ loc'.max_fitness = self.max_fitness_.val
            /\ self' = self
        /\ pc # "idle" =>
            /\ Prefix0(self.mean_fitness_.val, loc'.mean_fitness)
               \/ pc' = "idle"
C6_Resume == [][C6_ResumeStep]_vars
C6_Witness ==
    /\ pc \in {"generation", "exit"}
    /\ cfg.selection_strategy = "boltzmann"
    /\ FracGt(self.temperature, <<110, 1>>)
    /\ aux.init_calls = 1
    /\ aux.gen0 >= 1
    /\ loc.it >= 1
    /\ Len0(loc.mean_fitness) > Len0(self.mean_fitness_.val)
    /\ Len0(self.mean_fitness_.val) >= 1

\* C4: sort_by_fitness applies one and the same permutation to its three
\* inputs: the returned fitness is non-increasing, and for every output index
\* the returned population row, fitness value and printable-fitness value all
\* come from the same input index.
C4_OnePermutation ==
    pc = "sorted" =>
        /\ NonIncreasing(loc.fitness)
        /\ \E from \in [DOMAIN loc.fitness -> DOMAIN loc.fitness] :
            /\ \A i, j \in DOMAIN from : i # j => from[i] # from[j]
            /\ \A i \in DOMAIN from :
                /\ loc.fitness[i] = aux.arg.val.fitness[from[i]]
                /\ loc.population[i] = aux.arg.val.population[from[i]]
                /\ loc.printable_fitness[i] = aux.arg.val.printable_fitness[from[i]]

\* C7: with a deterministic evaluator and the same integer random_state, two
\* solvers of identical configuration produce identical best-fitness
\* trajectories, whatever the order in which the two are constructed and
\* solved within one process.
C7_SameTrajectories ==
    (solvers["a"].phase = "solved" /\ solvers["b"].phase = "solved") =>
        solvers["a"].trajectory = solvers["b"].trajectory

\* what C8 counts: the least integer not below (pop_size - 1) * n_genes * rate
IsCeil(n, num, den) == n * den >= num /\ (n - 1) * den < num
\* C8: every mutation event targets a row in [1, pop_size), never row 0, and a
\* gene of the allowed set, never a gene of excluded_genes; the number of
\* events is ceil((pop_size - 1) * n_genes * mutation_rate).
C8_MutationTargets ==
    pc = "mutated" =>
        LET rows == aux.ev.mutation_rows
            cols == aux.ev.mutation_cols
        IN  /\ DOMAIN rows = DOMAIN cols
            /\ IsCeil(Len0(rows),
                      (cfg.pop_size - 1) * cfg.n_genes * cfg.mutation_rate[1],
                      cfg.mutation_rate[2])
            /\ \A k \in DOMAIN rows :
                /\ rows[k] \in 1 .. cfg.pop_size - 1
                /\ rows[k] # 0
                /\ cols[k] \in 0 .. cfg.n_genes - 1
                /\ cols[k] \notin cfg.excluded_genes
C8_Witness ==
    /\ pc = "mutated"
    /\ cfg.excluded_genes # {}
    /\ Len0(aux.ev.mutation_rows) >= 2
    /\ \E k, m \in DOMAIN aux.ev.mutation_rows :
        /\ aux.ev.mutation_rows[k] # aux.ev.mutation_rows[m]
        /\ aux.ev.mutation_cols[k] # aux.ev.mutation_cols[m]

\* C9: under roulette_wheel and random, for every uniform draw in [0, 1), the
\* value 0 included, interval_selection returns a parent index inside
\* [0, pop_keep), never a negative or out-of-elite index.
C9_IntervalInElite ==
    (pc = "selected" /\ cfg.selection_strategy \in {"roulette_wheel", "random"}) =>
        /\ \A i \in DOMAIN loc.ma : loc.ma[i] \in 0 .. pop_keep(cfg) - 1
        /\ \A i \in DOMAIN loc.pa : loc.pa[i] \in 0 .. pop_keep(cfg) - 1

\* C10: under two_by_two, select_parents returns mothers [0, 2, ..] and fathers
\* [1, 3, ..], both of length n_matings, whatever the fitness values, and
\* every returned index belongs to the elite [0, pop_keep).
C10_TwoByTwoInElite ==
    (pc = "selected" /\ cfg.selection_strategy = "two_by_two") =>
        /\ DOMAIN loc.ma = 0 .. n_matings(cfg) - 1
        /\ DOMAIN loc.pa = 0 .. n_matings(cfg) - 1
        /\ \A i \in DOMAIN loc.ma : loc.ma[i] = 2 * i /\ loc.ma[i] < pop_keep(cfg)
        /\ \A i \in DOMAIN loc.pa : loc.pa[i] = 2 * i + 1 /\ loc.pa[i] < pop_keep(cfg)

\* C11: with prune_duplicates, the rows kept from the mutated population are,
\* in their order, row 0 and every row that differs from the last kept row,
\* which is every row that differs from the row before it; a run of equal
\* adjacent rows leaves one row; the refill rows follow at the end and restore
\* pop_size; all of it before the fitness is evaluated again.
KeptRows(mutated) == {i \in DOMAIN mutated : i = 0 \/ mutated[i] # mutated[i - 1]}
C11_AdjacentDuplicatesPruned ==
    (pc = "evaluate" /\ cfg.prune_duplicates) =>
        LET mutated == aux.ev.mutated
            keep == KeptRows(mutated)
        IN  /\ aux.ev.kept = Cardinality(keep)
            /\ aux.ev.nrefill = cfg.pop_size - Cardinality(keep)
            /\ Len0(loc.population) = cfg.pop_size
            /\ \A i \in keep :
                   loc.population[Cardinality({x \in keep : x < i})] = mutated[i]
            /\ \A j \in 1 .. Cardinality(keep) - 1 :
                   loc.population[j] # loc.population[j - 1]
            /\ \A j \in Cardinality(keep) .. cfg.pop_size - 1 :
                   loc.population[j] \in Chromosomes(cfg)
            /\ loc.it = loc.gen_n - 2
C11_Witness ==
    /\ pc = "evaluate"
    /\ cfg.prune_duplicates
    /\ \E i \in DOMAIN aux.ev.mutated :
        /\ i + 2 \in DOMAIN aux.ev.mutated
        /\ aux.ev.mutated[i] = aux.ev.mutated[i + 1]
        /\ aux.ev.mutated[i] = aux.ev.mutated[i + 2]
    /\ aux.ev.nrefill = 2

\* C12: the constructor raises a configuration error, so that no solver is
\* there to fail in solve or in a selection, when no fitness evaluator is
\* supplied or bound, when the selection strategy is not one of the five names,
\* when pop_size is below 2, and when excluded_genes is neither absent nor a
\* list, tuple or array.
NoEvaluator ==
    /\ cfg.fitness_function.none
    /\ cfg.hashable_fitness_function.none
    /\ "fitness_function" \notin cfg.class_attrs
WrongConfiguration ==
    \/ NoEvaluator
    \/ cfg.selection_strategy \notin
           {"roulette_wheel", "two_by_two", "random", "tournament", "boltzmann"}
    \/ cfg.pop_size < 2
    \/ cfg.excluded_genes.type \notin {"NoneType", "list", "tuple", "ndarray"}
C12_RaisedAtConstruction ==
    WrongConfiguration =>
        /\ pc \in {"construct", "raised"}
        /\ pc = "raised" =>
              aux.raised \in {Some("NoFitnessFunction"), Some("InvalidInput")}
C12_Witness ==
    /\ pc = "raised"
    /\ ~NoEvaluator
    /\ cfg.selection_strategy \in allowed_selection_strategies
    /\ cfg.pop_size < 2
    /\ cfg.excluded_genes.type = "list"
    /\ aux.raised = Some("InvalidInput")

\* C13: with lru_cache = True, a fitness function and no hashable evaluator,
\* supplied or bound, the constructor returns a solver whose calculate_fitness
\* is the uncached one.
NoHashableEvaluator ==
    /\ cfg.lru_cache
    /\ ~cfg.fitness_function.none
    /\ cfg.hashable_fitness_function.none
    /\ "hashable_fitness_function" \notin cfg.class_attrs
C13_UncachedFallback ==
    (NoHashableEvaluator /\ ~WrongConfiguration /\ pc # "construct") =>
        /\ pc = "idle"
        /\ self.calculate_fitness = "calculate_fitness"

\* C14: with caching, over any sequence of population evaluations, the
\* evaluator is not called for a key the cache holds at that moment, no cache
\* holds more than 128 entries, and the fitness returned for a row is the
\* evaluator's value for the canonical key of that row.
C14_CacheSound ==
    /\ \A i \in DOMAIN aux.calls : ~aux.calls[i].cached
    /\ \A name \in DOMAIN cache :
        Len0(cache[name]) <= 128
    /\ (aux.evaluations > 0 /\ aux.raised.none) =>
          /\ Len0(loc.fitness) = Len0(loc.population)
          /\ \A i \in DOMAIN loc.population :
                loc.fitness[i] = (3 * Sum0(loc.population[i]) + 1) % 7
C14_Witness ==
    /\ aux.evaluations > 0
    /\ aux.raised.none
    /\ \E name \in DOMAIN cache :
        /\ Len0(cache[name]) = 128
        /\ cache[name][0].key[1] > 1
    /\ Len0(aux.calls) = 1
    /\ aux.calls[0].key[1] = 0
    /\ Len0(loc.fitness) = 2

\* C15: sort_by_fitness applied to its own output returns the same fitness
\* array, the same order of the population rows and the same printable
\* fitness, also when rows with different chromosomes have equal fitness.
C15_SortIdempotent ==
    pc = "sorted_twice" =>
        /\ loc.fitness = aux.arg.val.fitness
        /\ loc.population = aux.arg.val.population
        /\ loc.printable_fitness = aux.arg.val.printable_fitness

\* C16: the stagnation counter counts consecutive generations without
\* improvement: after a generation whose best fitness is above the best
\* fitness before it the counter is 0, and a solve call that stops before its
\* generation budget has just run more than max_conv generations in a row
\* without improvement.
BestBefore(g) == loc.max_fitness[Len0(loc.max_fitness) - loc.it + g - 1]
BestAfter(g) == IF g = loc.it THEN loc.fitness[0] ELSE BestBefore(g + 1)
StagnantRun == Cardinality({g \in 1 .. loc.it :
                               \A h \in g .. loc.it : BestAfter(h) <= BestBefore(h)})
C16_ConsecutiveStagnation ==
    EndOfGeneration =>
        /\ BestAfter(loc.it) > BestBefore(loc.it) => loc.conv = 0
        /\ (pc = "exit" /\ loc.gen_n < loc.niter) => StagnantRun > cfg.max_conv

\* C17: in every generation of a solve call, the first generation of the first
\* call included, the stagnation counter goes up by one exactly when the best
\* fitness after the re-ranking equals the best fitness the population had
\* before that generation; the counter, 0 when the call starts, is then the
\* number of such generations of the call.
C17_CountsUnchangedBest ==
    EndOfGeneration =>
        loc.conv = Cardinality({g \in 1 .. loc.it : BestAfter(g) = BestBefore(g)})

\* C18: every parent chromosome passed to create_offspring is the content its
\* row had when the parent selection finished: no parent is read from a row
\* already overwritten by an offspring of the same generation.
C18_ParentsAsSelected ==
    pc = "mutate" =>
        \A k \in DOMAIN aux.ev.calls :
            /\ aux.ev.calls[k].first_parent = At(aux.ev.selected, aux.ev.calls[k].read[1])
            /\ aux.ev.calls[k].sec_parent = At(aux.ev.selected, aux.ev.calls[k].read[2])

\* C19: the recombination step overwrites exactly the 2 * n_matings
\* lowest-ranked rows, rows pop_size - 2 * n_matings to pop_size - 1; each
\* mating writes two offspring built from the same parent pair and the same
\* crossover points, the parents swapped; every other row, rows 0 to
\* pop_keep - 1 among them, is left as it was.
C19_OffspringRows ==
    pc = "mutate" =>
        LET calls == aux.ev.calls
            lowest == cfg.pop_size - 2 * n_matings(cfg)
        IN  /\ Len0(calls) = 2 * n_matings(cfg)
            /\ {calls[k].row : k \in DOMAIN calls} = lowest .. cfg.pop_size - 1
            /\ \A r \in 0 .. lowest - 1 : loc.population[r] = aux.ev.selected[r]
            /\ lowest >= pop_keep(cfg)
            /\ \A i \in 0 .. n_matings(cfg) - 1 :
                /\ calls[2 * i].offspring_number = "first"
                /\ calls[2 * i + 1].offspring_number = "second"
                /\ calls[2 * i + 1].crossover_pt = calls[2 * i].crossover_pt
                /\ calls[2 * i + 1].first_parent = calls[2 * i].sec_parent
                /\ calls[2 * i + 1].sec_parent = calls[2 * i].first_parent

\* C20: get_crossover_points returns exactly n_crossover_points distinct gene
\* indices in ascending order, every one of them a gene that is allowed (not
\* excluded).  The points are taken as the set of the returned indices.
C20_CrossoverPoints ==
    pc = "recombine" =>
        \A i \in DOMAIN loc.xp :
            /\ ~loc.xp[i].none
            /\ Cardinality(loc.xp[i].val) = cfg.n_crossover_points
            /\ loc.xp[i].val \subseteq Range0(allowed_mutation_genes(cfg))

\* C21: under boltzmann the table rebuilt in a generation has pop_keep + 1
\* entries, starts at 0, is non-decreasing and ends at 1, and every parent
\* index drawn with it lies in [0, pop_keep).
Defined(x) == x[2] # 0
BoltzmannTable == self.prob_intervals.val
C21_BoltzmannTable ==
    (cfg.selection_strategy = "boltzmann" /\ pc = "recombine") =>
        /\ Len0(BoltzmannTable) = pop_keep(cfg) + 1
        /\ BoltzmannTable[0] = <<0, 1>>
        /\ \A j \in DOMAIN BoltzmannTable : Defined(BoltzmannTable[j])
        /\ \A j \in 1 .. pop_keep(cfg) :
               ~FracGt(BoltzmannTable[j - 1], BoltzmannTable[j])
        /\ BoltzmannTable[pop_keep(cfg)][1] = BoltzmannTable[pop_keep(cfg)][2]
        /\ \A i \in DOMAIN loc.ma : loc.ma[i] \in 0 .. pop_keep(cfg) - 1
        /\ \A i \in DOMAIN loc.pa : loc.pa[i] \in 0 .. pop_keep(cfg) - 1

\* C22: when the fitness values the Boltzmann table is built from are all
\* equal, nothing is divided by zero: every entry of the table is a number and
\* the table is non-decreasing.
C22_FlatFitnessTable ==
    (/\ cfg.selection_strategy = "boltzmann"
     /\ pc = "recombine"
     /\ \A k \in 0 .. pop_keep(cfg) : loc.fitness[k] = loc.fitness[0]) =>
        \A j \in 1 .. pop_keep(cfg) :
            /\ Defined(BoltzmannTable[j])
            /\ ~FracGt(BoltzmannTable[j - 1], BoltzmannTable[j])

\* C23: with a pure evaluator the best fitness of the ranked population never
\* decreases from one generation to the next, within a solve call and across
\* resumed calls: row 0 keeps its recorded fitness through offspring, mutation
\* and deduplication, and the recorded max-fitness history is non-decreasing.
NonDecreasing(a) == \A i, j \in DOMAIN a : i < j => a[i] <= a[j]
Ranked == pc \in {"generation", "exit"}
C23_BestNeverDecreases ==
    /\ NonDecreasing(loc.max_fitness)
    /\ ~self.max_fitness_.none => NonDecreasing(self.max_fitness_.val)
    /\ pc \in {"mutate", "prune", "evaluate"} =>
           fitness_function(loc.population[0]) = loc.fitness[0]
    /\ (Ranked /\ Len0(loc.max_fitness) > 0) =>
           loc.fitness[0] >= loc.max_fitness[Len0(loc.max_fitness) - 1]
    /\ (Ranked /\ ~self.fitness_.none) => loc.fitness[0] >= self.fitness_.val[0]
C23_Witness ==
    /\ Ranked
    /\ aux.gen0 >= 1
    /\ loc.it >= 1
    /\ loc.fitness[0] > loc.max_fitness[0]
    /\ loc.max_fitness[Len0(loc.max_fitness) - 1] > loc.max_fitness[0]
\* C24: after any sequence of solve calls the mean-fitness history and the
\* max-fitness history both have exactly generations_ entries; each executed
\* generation appends one entry to each, the mean and the best fitness of the
\* population as it stood at the start of that generation, and leaves the
\* earlier entries as they were.
Last0(a) == a[Len0(a) - 1]
FitnessOf(population) == calculate_fitness(population).fitness
IsMeanOf(m, f) == m[2] # 0 /\ m[1] * Len0(f) = Sum0(f) * m[2]
IsBestOf(b, f) == (\E k \in DOMAIN f : f[k] = b) /\ (\A k \in DOMAIN f : f[k] <= b)
====
